---- MODULE Spec2Model ----
(***************************************************************************)
(* Model of app.py: the DataManager persistence layer (GitHub first, local *)
(* CSV fallback), the backup merge of render_backup_restore_tab, and the   *)
(* prompt assembly of PromptBuilder._generate_prompt.                      *)
(***************************************************************************)
EXTENDS Naturals, Sequences, FiniteSets, TLC

VARIABLES
    ds,       \* the dataset file this behaviour follows (filename)
    cfg,      \* _gh_available(): st.secrets holds token, owner and repo
    remote,   \* the file at {prefix}/{filename} in the GitHub repository and its sha
    localf,   \* the file named filename in the working directory
    last,     \* the operation that completed last, with its inputs and outcome
    callers,  \* two sessions of the app adding elements: where each is in its
              \* load_data / save_data pair, and what it holds
    builder   \* PromptBuilder.render: the selections and what it computed

vars == <<ds, cfg, remote, localf, last, callers, builder>>

\* ------------------------------------------------------------------ bounds

\* most rows of a table a caller passes to save_data
MaxRows == 1

\* ------------------------------------------------------------- constants

ELEMENT_TYPES == <<"role", "goal", "audience", "context", "output", "tone">>
CSV_COLUMNS == <<"title", "type", "content">>
PROMPT_HISTORY_COLUMNS == <<"name", "timestamp", "prompt">>

ELEMENTS_FILE == "prompt_elements.csv"
HISTORY_FILE == "prompt_history.csv"

\* the columns each caller of load_data passes for a file name
ColumnsOf(filename) ==
    IF filename = ELEMENTS_FILE THEN CSV_COLUMNS ELSE PROMPT_HISTORY_COLUMNS

Range(s) == {s[i] : i \in 1..Len(s)}

\* a value, computed once (comparing a function with itself makes the model
\* checker tabulate it)
Eval(x) == IF x = x THEN x ELSE x
IndexOf(s, x) == CHOOSE j \in 1..Len(s) : s[j] = x

\* ------------------------------------------------ cells of a DataFrame

\* A cell is the Python object a DataFrame holds: a str, an int, a float or
\* the missing value NaN; v is the text to_csv and str() render it as
\* (NaN: to_csv writes the empty field).
NaN == [k |-> "nan", v |-> ""]
Str(s) == [k |-> "str", v |-> s]
IntCell(t) == [k |-> "int", v |-> t]
FloatCell(t) == [k |-> "float", v |-> t]

\* the field texts pandas.read_csv reads as missing (its default na_values)
NaTexts == {"", "#N/A", "#NA", "<NA>", "N/A", "NA", "NULL", "NaN", "None",
            "n/a", "nan", "null"}
\* the field texts of the model that parse as an integer, and as a float
IntTexts == {"1"}
FloatTexts == {"1.0"}
\* repr of the float an integer text parses to in a float64 column
AsFloatText(t) == IF t = "1" THEN "1.0" ELSE t

\* read_csv's type inference for one column: missing fields become NaN; the
\* column is int64 when every field is an integer, float64 when every field
\* is numeric or missing, and otherwise keeps the texts as str objects.
ReadCol(fields) ==
    LET n == Len(fields)
        numeric == \A i \in 1..n : fields[i] \in NaTexts \cup IntTexts \cup FloatTexts
        allInt == \A i \in 1..n : fields[i] \in IntTexts
    IN [i \in 1..n |->
          IF fields[i] \in NaTexts THEN NaN
          ELSE IF ~numeric THEN Str(fields[i])
          ELSE IF allInt THEN IntCell(fields[i])
          ELSE FloatCell(AsFloatText(fields[i]))]

\* --------------------------------------------------------------- files

\* A file is absent, a CSV text (a header line and data lines of fields), a
\* zero-byte file (read_csv raises EmptyDataError) or bytes that are not
\* UTF-8 text (decoding raises).
NoFile == [kind |-> "none"]
EmptyFile == [kind |-> "empty"]
BinaryFile == [kind |-> "binary"]
CsvFile(header, lines) == [kind |-> "csv", header |-> header, lines |-> lines]

EmptyTable(columns) == [cols |-> columns, rows |-> <<>>]

\* pd.read_csv(buf) on a CSV text
ReadCsv(file) ==
    LET h == file.header
        n == Len(file.lines)
        col(j) == Eval(ReadCol([i \in 1..n |-> file.lines[i][j]]))
        cells == Eval([j \in 1..Len(h) |-> col(j)])
    IN Eval([cols |-> h,
             rows |-> [i \in 1..n |-> [c \in Range(h) |-> cells[IndexOf(h, c)][i]]]])

\* df.to_csv(buf, index=False)
ToCsv(df) ==
    CsvFile(df.cols,
            [i \in 1..Len(df.rows) |->
                [j \in 1..Len(df.cols) |-> df.rows[i][df.cols[j]].v]])

\* load_data returning the frame with the missing columns added but without
\* the selection df[columns]
CoerceNoSelect(df, columns) ==
    LET missing == SelectSeq(columns, LAMBDA c : c \notin Range(df.cols))
        all == df.cols \o missing
    IN IF Len(df.rows) = 0 THEN EmptyTable(columns)
       ELSE [cols |-> all,
             rows |-> [i \in 1..Len(df.rows) |->
                         [c \in Range(all) |->
                             IF c \in Range(df.cols) THEN df.rows[i][c] ELSE NaN]]]

\* the column coercion of load_data: add every missing column as NaN, then
\* df[columns], or an empty frame of the columns when df.empty
Coerce(df, columns) ==
    IF Len(df.rows) = 0 THEN EmptyTable(columns)
    ELSE Eval([cols |-> columns,
               rows |-> [i \in 1..Len(df.rows) |->
                           [c \in Range(columns) |->
                               IF c \in Range(df.cols) THEN df.rows[i][c] ELSE NaN]]])

\* ------------------------------------------------------- GitHub helpers

\* what one HTTP request meets: the server answers ("ok": 200, or 404 for a
\* file that is not there), requests raises ("exc"), or the server answers
\* with an error status ("status")
NetOutcomes == {"ok", "exc", "status"}

None == [kind |-> "None"]

\* the sha the contents API reports for a file: the hash of its content
ShaOf(file) == [kind |-> "sha", of |-> file]

\* _gh_read_csv: the decoded text of the remote file, or None
GhReadCsv(configured, rem, net) ==
    IF ~configured THEN None
    ELSE IF net # "ok" THEN None
    ELSE IF rem.kind = "none" THEN None
    ELSE IF rem.kind = "binary" THEN None
    ELSE rem

\* _gh_get_file_sha: the sha of the remote file; None on any status but 200
\* (a raise of requests.get propagates: the caller handles net = "exc")
GhGetFileSha(rem, net) ==
    IF net = "ok" /\ rem.kind # "none" THEN ShaOf(rem) ELSE None

\* a payload that never carries the sha
PayloadNoSha(body, sha) == [content |-> body, sha |-> None]

\* the payload _gh_write_csv sends: the content, and the sha when it has one
Payload(body, sha) == [content |-> body, sha |-> sha]

\* The contents API's answer to PUT: it creates a file that is not there,
\* updates a file when the sha sent is the file's current sha, and rejects
\* the request otherwise (409 on a mismatch, 422 on a missing sha).
PutAccepted(rem, payload) ==
    IF rem.kind = "none" THEN TRUE ELSE payload.sha = ShaOf(rem)

\* requests.put and raise_for_status in _gh_write_csv: TRUE when the write
\* went through, FALSE when either raises
GhPut(rem, payload, net) == net = "ok" /\ PutAccepted(rem, payload)

\* _gh_write_csv: TRUE when it returns True, FALSE when it raises
GhWriteCsv(df, configured, rem, netSha, netPut) ==
    /\ configured
    /\ netSha # "exc"
    /\ GhPut(rem, Payload(ToCsv(df), GhGetFileSha(rem, netSha)), netPut)

\* ---------------------------------------------------------- DataManager

\* DataManager.load_data(filename, columns) in a state of the two stores.
\* net is what the GET meets, diskOk whether a local write goes through.
\* raised: the call raised to its caller; via: the path that produced df.
LoadData(columns, configured, rem, loc, net, diskOk) ==
    LET buf == GhReadCsv(configured, rem, net)
    IN IF buf # None /\ buf.kind = "csv"
       THEN [raised |-> FALSE, df |-> Coerce(ReadCsv(buf), columns),
             localf |-> loc, via |-> "remote"]
       ELSE IF loc.kind = "none"
       THEN IF diskOk
            THEN [raised |-> FALSE, df |-> EmptyTable(columns),
                  localf |-> ToCsv(EmptyTable(columns)), via |-> "created"]
            ELSE [raised |-> TRUE, df |-> None, localf |-> loc, via |-> "created"]
       ELSE IF loc.kind # "csv"
       THEN [raised |-> TRUE, df |-> None, localf |-> loc, via |-> "local"]
       ELSE [raised |-> FALSE, df |-> Coerce(ReadCsv(loc), columns),
             localf |-> loc, via |-> "local"]

\* save_data without the return after a successful remote write: the local
\* file is written every time
SaveDataNoReturn(df, configured, rem, loc, netSha, netPut, diskOk) ==
    LET wrote == GhWriteCsv(df, configured, rem, netSha, netPut)
    IN [raised |-> ~diskOk,
        remote |-> IF wrote THEN ToCsv(df) ELSE rem,
        localf |-> IF diskOk THEN ToCsv(df) ELSE loc,
        via |-> IF wrote THEN "remote" ELSE "local"]

\* DataManager.save_data(df, filename)
SaveData(df, configured, rem, loc, netSha, netPut, diskOk) ==
    IF GhWriteCsv(df, configured, rem, netSha, netPut)
    THEN [raised |-> FALSE, remote |-> ToCsv(df), localf |-> loc, via |-> "remote"]
    ELSE IF diskOk
    THEN [raised |-> FALSE, remote |-> rem, localf |-> ToCsv(df), via |-> "local"]
    ELSE [raised |-> TRUE, remote |-> rem, localf |-> loc, via |-> "local"]

\* ---------------------------------------------------------------- inputs

\* rows a caller builds or loads, as the cells of the three columns in order
RowUniverse ==
    { <<Str("A"), Str("role"), Str("old")>>,
      <<Str("Expert"), Str("role"), Str("")>> }

RowOf(columns, cells) == [c \in Range(columns) |-> cells[IndexOf(columns, c)]]

SeqsUpTo(S, n) == UNION {[1..m -> S] : m \in 0..n}

\* the tables a caller passes to save_data: the declared columns, few rows
TablesOf(columns) ==
    {[cols |-> columns, rows |-> [i \in 1..Len(rs) |-> RowOf(columns, rs[i])]] :
        rs \in SeqsUpTo(RowUniverse, MaxRows)}

\* files the stores may hold at the start: none, unreadable ones, a header
\* alone, a file that lacks a declared column and has another, and files of
\* the declared columns
InitFiles(columns) ==
    { NoFile, EmptyFile, BinaryFile,
      CsvFile(columns, <<>>),
      CsvFile(<<columns[1], "notes">>, << <<"A", "x">> >>),
      CsvFile(<<columns[3], columns[1], columns[2]>>, << <<"", "Expert", "role">> >>),
      CsvFile(columns, << <<"A", "role", "old">> >>) }

\* ----------------------------------------------------------- operations

NoOp == [op |-> "none"]

\* a caller runs load_data(ds, columns); the disk is only written, and so
\* diskOk only drawn, when there is no local copy
Load ==
    \E net \in NetOutcomes, diskOk \in BOOLEAN :
        \E r \in {LoadData(ColumnsOf(ds), cfg, remote, localf, net, diskOk)} :
           /\ r.via # "created" => diskOk
           /\ localf' = r.localf
           /\ last' = [op |-> "load", raised |-> r.raised, df |-> r.df, via |-> r.via,
                       net |-> net, diskOk |-> diskOk,
                       saved |-> IF last.op = "save" /\ ~last.raised
                                 THEN last.df ELSE None]
           /\ UNCHANGED <<ds, cfg, remote, callers, builder>>

\* a caller runs save_data(df, ds); the PUT is only sent, and so netPut only
\* drawn, when the sha fetch did not raise, and the disk only written when
\* the remote write raised
Save ==
    \E df \in TablesOf(ColumnsOf(ds)), netSha \in NetOutcomes,
       netPut \in NetOutcomes, diskOk \in BOOLEAN :
        \E r \in {SaveData(df, cfg, remote, localf, netSha, netPut, diskOk)} :
           /\ (~cfg \/ netSha = "exc") => netPut = "exc"
           /\ ~cfg => netSha = "exc"
           /\ r.via = "remote" => diskOk
           /\ remote' = r.remote
           /\ localf' = r.localf
           /\ last' = [op |-> "save", raised |-> r.raised, df |-> df, via |-> r.via,
                       netSha |-> netSha, netPut |-> netPut, diskOk |-> diskOk]
           /\ UNCHANGED <<ds, cfg, callers, builder>>

InitStore ==
    /\ ds = ELEMENTS_FILE
    /\ cfg \in BOOLEAN
    /\ remote \in InitFiles(ColumnsOf(ds))
    /\ localf \in InitFiles(ColumnsOf(ds))
    /\ last = NoOp
    /\ callers = <<>>
    /\ builder = NoOp

NextStore == Load \/ Save

SpecStore == InitStore /\ [][NextStore]_vars

\* --------------------------------------------------- backup merge

\* most data lines of an uploaded backup file and of the file stored at the start
MaxLines == 2

\* the dtype read_csv or load_data gave a column, seen from its cells
ColKind(cells) ==
    IF cells = <<>> THEN "object"
    ELSE IF \A i \in 1..Len(cells) : cells[i].k = "int" THEN "int64"
    ELSE IF \A i \in 1..Len(cells) : cells[i].k \in {"float", "nan"} THEN "float64"
    ELSE "object"

Column(df, c) == [i \in 1..Len(df.rows) |-> IF c \in Range(df.cols) THEN df.rows[i][c] ELSE NaN]

\* pd.concat([a, b], ignore_index=True): the rows of a, then the rows of b,
\* over the union of the columns (NaN where a frame lacks one); an int64
\* column joined with a float64 one becomes float64, any other mix of dtypes
\* becomes object and keeps the cells as they are
Concat(a, b) ==
    LET cols == a.cols \o SelectSeq(b.cols, LAMBDA c : c \notin Range(a.cols))
        asFloat == Eval([c \in Range(cols) |->
                           {ColKind(Column(a, c)), ColKind(Column(b, c))}
                               = {"int64", "float64"}])
        conv(c, x) == IF asFloat[c] /\ x.k = "int" THEN FloatCell(AsFloatText(x.v)) ELSE x
        row(df, i) == [c \in Range(cols) |->
                         IF c \in Range(df.cols) THEN conv(c, df.rows[i][c]) ELSE NaN]
    IN Eval([cols |-> cols,
             rows |-> [i \in 1..Len(a.rows) |-> row(a, i)]
                      \o [i \in 1..Len(b.rows) |-> row(b, i)]])

\* two rows are duplicates under a subset of the columns
SameKey(r1, r2, subset) == \A c \in Range(subset) : r1[c] = r2[c]

\* drop_duplicates keyed on title and type alone
DropDuplicatesTitleType(df, subset) ==
    LET keep(i) == \A j \in (i + 1)..Len(df.rows) :
                        ~SameKey(df.rows[i], df.rows[j], SubSeq(subset, 1, 2))
        F[i \in 0..Len(df.rows)] ==
            IF i = 0 THEN <<>>
            ELSE IF keep(i) THEN Append(F[i - 1], df.rows[i]) ELSE F[i - 1]
    IN [cols |-> df.cols, rows |-> F[Len(df.rows)]]

\* combined.drop_duplicates(subset=subset, keep="last"): a row stays when no
\* later row has the same key
DropDuplicates(df, subset) ==
    LET keep(i) == \A j \in (i + 1)..Len(df.rows) :
                        ~SameKey(df.rows[i], df.rows[j], subset)
        F[i \in 0..Len(df.rows)] ==
            IF i = 0 THEN <<>>
            ELSE IF keep(i) THEN Append(F[i - 1], df.rows[i]) ELSE F[i - 1]
    IN [cols |-> df.cols, rows |-> F[Len(df.rows)]]

\* the data lines of backup files: elements titled "A" of type "role" whose
\* content is a text or a number
LineUniverse ==
    { <<"A", "role", "old">>, <<"A", "role", "new">>, <<"A", "role", "1">> }

\* the CSV files a user uploads, and the stored file at the start
BackupFiles(columns) ==
    {CsvFile(columns, ls) : ls \in SeqsUpTo(LineUniverse, MaxLines)}

\* what the restore branch leaves: raised when its except branch ran
MergeOutcome(raised, rem, loc, base, new, combined) ==
    [raised |-> raised, remote |-> rem, localf |-> loc,
     base |-> base, new |-> new, combined |-> combined]

\* DataManager.save_data(combined, filename), as w, closes the branch
MergeSaved(l, new_df, combined, w) ==
    MergeOutcome(w.raised, w.remote, w.localf, l.df, new_df, combined)

\* pd.concat([base_df, new_df]) and drop_duplicates(subset, keep="last")
Combined(base_df, new_df, subset) == DropDuplicates(Concat(base_df, new_df), subset)

\* the branch from base_df = load_data(...), as l, on
MergeLoaded(l, new_df, combined, columns, configured, rem) ==
    IF l.raised
    THEN MergeOutcome(TRUE, rem, l.localf, None, new_df, None)
    ELSE MergeSaved(l, new_df, combined,
                    SaveData(combined, configured, rem, l.localf, "ok", "ok", TRUE))

\* the branch from new_df = pd.read_csv(up) on
MergeRead(new_df, l, columns, configured, rem) ==
    MergeLoaded(l, new_df,
                IF l.raised THEN None ELSE Combined(l.df, new_df, columns),
                columns, configured, rem)

\* The restore branch of render_backup_restore_tab for an uploaded file up,
\* with the network and the disk working: read the upload, load the stored
\* dataset, append, drop duplicates, save.
MergeImport(up, columns, configured, rem, loc) ==
    IF up.kind # "csv"
    THEN MergeOutcome(TRUE, rem, loc, None, None, None)
    ELSE MergeRead(ReadCsv(up), LoadData(columns, configured, rem, loc, "ok", TRUE),
                   columns, configured, rem)

\* the user uploads a backup of the dataset
Merge ==
    \E up \in BackupFiles(ColumnsOf(ds)) \cup {EmptyFile} :
        \E r \in {MergeImport(up, ColumnsOf(ds), cfg, remote, localf)} :
           /\ remote' = r.remote
           /\ localf' = r.localf
           /\ last' = [op |-> "merge", raised |-> r.raised, up |-> up,
                       base |-> r.base, new |-> r.new, combined |-> r.combined,
                       again |-> last.op = "merge" /\ ~last.raised /\ last.up = up,
                       before |-> <<remote, localf>>]
           /\ UNCHANGED <<ds, cfg, callers, builder>>

\* the dataset is stored remotely when GitHub is configured, locally otherwise
InitMerge ==
    /\ ds = ELEMENTS_FILE
    /\ cfg \in BOOLEAN
    /\ \E stored \in BackupFiles(ColumnsOf(ds)) \cup {NoFile, EmptyFile} :
          /\ remote = IF cfg THEN stored ELSE NoFile
          /\ localf = IF cfg THEN NoFile ELSE stored
    /\ last = NoOp
    /\ callers = <<>>
    /\ builder = NoOp

NextMerge == Merge

SpecMerge == InitMerge /\ [][NextMerge]_vars

\* ------------------------------------------------ concurrent sessions

\* most load_data / save_data pairs one session runs
MaxRounds == 1

Callers == {1, 2}

\* the element a session adds: ElementCreator's new_row
NewRow(c) ==
    [cols |-> CSV_COLUMNS,
     rows |-> << RowOf(CSV_COLUMNS,
                       <<Str(IF c = 1 THEN "A" ELSE "B"), Str("role"), Str("x")>>) >>]

Idle(round) ==
    [pc |-> "idle", round |-> round, df |-> None, sha |-> None, result |-> "none",
     afterLoad |-> FALSE, seenAtFetch |-> None, fetchNet |-> "none", putOn |-> None]

\* ElementCreator: df = load_data(...), then pd.concat([df, new_row])
CLoad(c) ==
    /\ callers[c].pc = "idle"
    /\ callers[c].round < MaxRounds
    /\ \E net \in NetOutcomes :
         \E r \in {LoadData(ColumnsOf(ds), cfg, remote, localf, net, TRUE)} :
            /\ ~r.raised
            /\ localf' = r.localf
            /\ callers' = [callers EXCEPT ![c] =
                              [Idle(@.round + 1) EXCEPT
                                  !.pc = "loaded", !.df = Concat(r.df, NewRow(c))]]
    /\ UNCHANGED <<ds, cfg, remote, last, builder>>

\* save_data, in _gh_write_csv: sha = _gh_get_file_sha(...). When requests.get
\* raises, save_data writes the local file and returns.
CFetch(c) ==
    /\ callers[c].pc = "loaded"
    /\ \E net \in NetOutcomes :
         IF net = "exc"
         THEN /\ localf' = ToCsv(callers[c].df)
              /\ callers' = [callers EXCEPT ![c].pc = "idle", ![c].result = "failed",
                                            ![c].fetchNet = net]
         ELSE /\ localf' = localf
              /\ callers' = [callers EXCEPT ![c].pc = "fetched",
                                            ![c].sha = GhGetFileSha(remote, net),
                                            ![c].seenAtFetch = remote,
                                            ![c].fetchNet = net]
    /\ UNCHANGED <<ds, cfg, remote, last, builder>>

\* save_data, in _gh_write_csv: requests.put and raise_for_status. An accepted
\* PUT replaces the remote file; when either raises, save_data writes the
\* local file and returns.
CPut(c) ==
    /\ callers[c].pc = "fetched"
    /\ \E net \in NetOutcomes :
         \E body \in {ToCsv(callers[c].df)} :
            IF GhPut(remote, Payload(body, callers[c].sha), net)
            THEN /\ remote' = body
                 /\ localf' = localf
                 /\ callers' = [o \in Callers |->
                       IF o = c
                       THEN [callers[o] EXCEPT !.pc = "idle", !.result = "accepted",
                                               !.putOn = remote]
                       ELSE IF callers[o].pc \in {"loaded", "fetched"}
                       THEN [callers[o] EXCEPT !.afterLoad = TRUE]
                       ELSE callers[o]]
            ELSE /\ remote' = remote
                 /\ localf' = body
                 /\ callers' = [callers EXCEPT
                       ![c].pc = "idle",
                       ![c].result = IF net = "ok" THEN "rejected" ELSE "failed",
                       ![c].putOn = remote]
    /\ UNCHANGED <<ds, cfg, last, builder>>

InitConc ==
    /\ ds = ELEMENTS_FILE
    /\ cfg = TRUE
    /\ remote \in {NoFile, CsvFile(CSV_COLUMNS, <<>>),
                   CsvFile(CSV_COLUMNS, << <<"Expert", "role", "">> >>)}
    /\ localf = NoFile
    /\ last = NoOp
    /\ callers = [c \in Callers |-> Idle(0)]
    /\ builder = NoOp

NextConc == \E c \in Callers : CLoad(c) \/ CFetch(c) \/ CPut(c)

SpecConc == InitConc /\ [][NextConc]_vars

\* ------------------------------------------------------ PromptBuilder

\* most elements the user creates
MaxElements == 2
\* most options picked in a multiselect
MaxPicked == 3

SKIP == "Skip"
WRITE_YOUR_OWN == "Write your own"
MULTI_SECTIONS == {"audience", "context", "output"}

FEEDBACK_SUFFIX ==
    "\n\nBefore you provide the response, please ask me any questions that you feel could "
    \o "help you craft a better response. If you feel you have enough information to craft this response, "
    \o "please just provide it."

\* str(x) of a cell
PyStr(cell) == IF cell.k = "nan" THEN "nan" ELSE cell.v

\* s.strip(), on the texts of the model
Strip(s) ==
    IF s \in {"", " ", "  "} THEN ""
    ELSE IF s = " A seasoned expert " THEN "A seasoned expert"
    ELSE s

\* section.title(), on the six section names
TitleCase(section) ==
    CASE section = "role" -> "Role"
      [] section = "goal" -> "Goal"
      [] section = "audience" -> "Audience"
      [] section = "context" -> "Context"
      [] section = "output" -> "Output"
      [] section = "tone" -> "Tone"

DisplayTitle(section) ==
    IF section = "audience" THEN "Target Audience" ELSE TitleCase(section)

\* sep.join(parts)
Join(parts, sep) ==
    LET F[i \in 0..Len(parts)] ==
            IF i = 0 THEN ""
            ELSE IF i = 1 THEN parts[1]
            ELSE F[i - 1] \o sep \o parts[i]
    IN F[Len(parts)]

\* a lookup that takes the last row of df[df['title'] == title]
LastRow(df, title) ==
    LET hits == {i \in 1..Len(df.rows) : df.rows[i]["title"] = Str(title)}
    IN IF hits = {} THEN 0 ELSE CHOOSE i \in hits : \A j \in hits : i >= j

\* the first row of df[df['title'] == title], 0 when there is none
FirstRow(df, title) ==
    LET hits == {i \in 1..Len(df.rows) : df.rows[i]["title"] = Str(title)}
    IN IF hits = {} THEN 0 ELSE CHOOSE i \in hits : \A j \in hits : i <= j

\* the rest of _row_content_or_fallback once the row is found
ContentOrTitle(content, title) ==
    IF content # "" THEN <<content, "">> ELSE <<title, title>>

\* PromptBuilder._row_content_or_fallback: (content, missing_label)
RowContentOrFallback(df, title) ==
    IF FirstRow(df, title) = 0 THEN <<"", "">>
    ELSE ContentOrTitle(Strip(PyStr(df.rows[FirstRow(df, title)]["content"])), title)

\* a selection: what a selectbox returns (a str) or a multiselect (a list)
StrSel(v) == [kind |-> "str", v |-> v]
ListSel(v) == [kind |-> "list", v |-> v]

\* the "Skip no-choice" test of _generate_prompt
IsSkip(sel) ==
    \/ sel.kind = "str" /\ sel.v = SKIP
    \/ sel.kind = "list" /\ (sel.v = <<>> \/ sel.v = <<SKIP>>)

\* what one title of a multiselect adds to (snippets, missing)
AddSnippet(acc, cm, title) ==
    [snippets |-> IF cm[1] # "" THEN Append(acc.snippets, cm[1]) ELSE acc.snippets,
     missing |-> IF cm[2] # "" THEN Append(acc.missing, title \o " → " \o cm[2])
                 ELSE acc.missing]

\* a loop over the picked titles that ends at the first title that is not in
\* the table
MultiSnippetsStopAtUnknown(df, picked, title) ==
    LET names == SelectSeq(picked, LAMBDA t : t \notin {SKIP, WRITE_YOUR_OWN})
        F[i \in 0..Len(names)] ==
            IF i = 0 THEN [snippets |-> <<>>, missing |-> <<>>, stop |-> FALSE]
            ELSE IF F[i - 1].stop \/ FirstRow(df, names[i]) = 0
            THEN [F[i - 1] EXCEPT !.stop = TRUE]
            ELSE [stop |-> FALSE] @@
                 AddSnippet(F[i - 1], RowContentOrFallback(df, names[i]), title)
    IN [snippets |-> F[Len(names)].snippets, missing |-> F[Len(names)].missing]

\* the loop of _generate_prompt over a multiselect's list
MultiSnippets(df, picked, title) ==
    LET names == SelectSeq(picked, LAMBDA t : t \notin {SKIP, WRITE_YOUR_OWN})
        F[i \in 0..Len(names)] ==
            IF i = 0 THEN [snippets |-> <<>>, missing |-> <<>>]
            ELSE AddSnippet(F[i - 1], RowContentOrFallback(df, names[i]), title)
    IN F[Len(names)]

\* content and notices of one title looked up for a section
OneTitle(cm, title) ==
    [content |-> cm[1],
     missing |-> IF cm[2] # "" THEN <<title \o " → " \o cm[2]>> ELSE <<>>]

JoinedSnippets(r) == [content |-> Join(r.snippets, "\n"), missing |-> r.missing]

\* content and notices of a section of audience, context, output
MultiContent(data, df, title) ==
    IF data.custom # "" THEN [content |-> data.custom, missing |-> <<>>]
    ELSE IF data.selected.kind = "list"
    THEN JoinedSnippets(MultiSnippets(df, data.selected.v, title))
    ELSE IF data.selected.v \notin {SKIP, WRITE_YOUR_OWN}
    THEN OneTitle(RowContentOrFallback(df, data.selected.v), title)
    ELSE [content |-> "", missing |-> <<>>]

\* content and notices of a section of role, goal, tone
SingleContent(data, df, title) ==
    IF data.selected.kind = "str" /\ data.selected.v = WRITE_YOUR_OWN
    THEN [content |-> data.custom, missing |-> <<>>]
    ELSE IF data.selected.kind = "str"
    THEN OneTitle(RowContentOrFallback(df, data.selected.v), title)
    ELSE [content |-> "", missing |-> <<>>]

\* the part a section appends, <<>> when its content is empty
SectionPart(section, title, r) ==
    [parts |-> IF r.content = "" THEN <<>>
               ELSE IF section \in MULTI_SECTIONS
               THEN <<title \o ":\n" \o r.content>>
               ELSE <<title \o ": " \o r.content>>,
     missing |-> r.missing]

\* one pass of the loop over selections.items()
Section(data, df) ==
    IF IsSkip(data.selected) THEN [parts |-> <<>>, missing |-> <<>>]
    ELSE IF data.section \in MULTI_SECTIONS
    THEN SectionPart(data.section, DisplayTitle(data.section),
                     MultiContent(data, df, DisplayTitle(data.section)))
    ELSE SectionPart(data.section, DisplayTitle(data.section),
                     SingleContent(data, df, DisplayTitle(data.section)))

\* parts and missing with what one more section adds
AddSection(acc, r) ==
    [parts |-> acc.parts \o r.parts, missing |-> acc.missing \o r.missing]

\* parts and missing after the loop over selections.items()
Sections(selections, df) ==
    LET F[i \in 0..Len(selections)] ==
            IF i = 0 THEN [parts |-> <<>>, missing |-> <<>>]
            ELSE AddSection(F[i - 1], Section(selections[i], df))
    IN F[Len(selections)]

\* the end of _generate_prompt: join the parts, append the feedback request
Finish(r, recursive_feedback) ==
    [parts |-> r.parts,
     prompt |-> IF recursive_feedback
                THEN Join(r.parts, "\n\n") \o FEEDBACK_SUFFIX
                ELSE Join(r.parts, "\n\n"),
     missing |-> r.missing]

\* PromptBuilder._generate_prompt(selections, df, recursive_feedback)
GeneratePrompt(selections, df, recursive_feedback) ==
    Finish(Sections(selections, df), recursive_feedback)

\* the elements the user creates in ElementCreator: title, type, content
ElementUniverse ==
    { <<"Expert", "role", "">>,
      <<"Expert", "role", "A seasoned expert">>,
      <<"Expert", "audience", " ">>,
      <<"Teacher", "audience", "Teachers">> }

\* lists without repetition, as a multiselect returns them
Picks(S, n) ==
    {p \in SeqsUpTo(S, n) : \A i, j \in 1..Len(p) : p[i] = p[j] => i = j}

Entry(section, selected, custom) ==
    [section |-> section, selected |-> selected, custom |-> custom]

\* the selections map PromptBuilder.render builds, in its insertion order,
\* from the role selectbox and the audience multiselect; the other widgets
\* are left alone
Selections(role, roleCustom, audience, audienceCustom) ==
    << Entry("role", StrSel(role), roleCustom),
       Entry("goal", StrSel(SKIP), ""),
       Entry("audience", ListSel(audience), audienceCustom),
       Entry("context", ListSel(<<>>), ""),
       Entry("output", ListSel(<<>>), ""),
       Entry("tone", StrSel(SKIP), "") >>

\* what the widgets can hold: a title picked earlier may be gone from the
\* table ("Ghost"); the custom text is only asked for with "Write your own"
SelectionChoices ==
    {<<>>}
    \cup {Selections(role, IF role = WRITE_YOUR_OWN THEN custom ELSE "",
                     audience,
                     IF \E i \in 1..Len(audience) : audience[i] = WRITE_YOUR_OWN
                     THEN custom ELSE "") :
            role \in {SKIP, WRITE_YOUR_OWN, "Expert", "Ghost"},
            audience \in Picks({SKIP, WRITE_YOUR_OWN, "Expert", "Teacher", "Ghost"},
                               MaxPicked),
            custom \in {"", "My own words"}}

\* ElementCreator.render with "Add Element" pressed: load, append, save; the
\* page is drawn again afterwards
AddElement ==
    /\ localf.kind = "csv" => Len(localf.lines) < MaxElements
    /\ \E e \in ElementUniverse :
         \E l \in {LoadData(CSV_COLUMNS, cfg, remote, localf, "ok", TRUE)} :
           \E w \in {SaveData(Concat(l.df, [cols |-> CSV_COLUMNS,
                                            rows |-> <<RowOf(CSV_COLUMNS,
                                                <<Str(e[1]), Str(e[2]), Str(e[3])>>)>>]),
                              cfg, remote, l.localf, "ok", "ok", TRUE)} :
              /\ remote' = w.remote
              /\ localf' = w.localf
    /\ builder' = NoOp
    /\ UNCHANGED <<ds, cfg, last, callers>>

\* clear_form_state: the form is emptied and the page is about to be drawn again
ClearForm ==
    /\ builder # NoOp
    /\ builder' = NoOp
    /\ UNCHANGED <<ds, cfg, remote, localf, last, callers>>

\* PromptBuilder.render, once per run of the page: load the elements, read
\* the widgets, compute the prompt
Render ==
    /\ builder = NoOp
    /\ \E selections \in SelectionChoices, recursive_feedback \in BOOLEAN :
         \E l \in {LoadData(CSV_COLUMNS, cfg, remote, localf, "ok", TRUE)} :
           \E g \in {GeneratePrompt(selections, l.df, recursive_feedback)} :
              /\ localf' = l.localf
              /\ builder' = [op |-> "render", selections |-> selections,
                             recursive_feedback |-> recursive_feedback, df |-> l.df,
                             parts |-> g.parts, prompt |-> g.prompt,
                             missing |-> g.missing]
    /\ UNCHANGED <<ds, cfg, remote, last, callers>>

InitBuilder ==
    /\ ds = ELEMENTS_FILE
    /\ cfg = FALSE
    /\ remote = NoFile
    /\ localf = NoFile
    /\ last = NoOp
    /\ callers = <<>>
    /\ builder = NoOp

NextBuilder == AddElement \/ Render \/ ClearForm

SpecBuilder == InitBuilder /\ [][NextBuilder]_vars

\* ------------------------------------------- load_data and save_data

\* the remote read of the last load produced a frame: the remote is
\* configured, the GET was answered 200 and the content parses
RemoteReadWorked == cfg /\ last.net = "ok" /\ remote.kind = "csv"

\* the stored data the last load returned: the remote file, or the local one
\* (load_data changes neither, but for creating the local file)
StoredData == IF last.via = "remote" THEN remote ELSE localf

\* C1: load never raises to the caller: for every remote state (unconfigured,
\* unreachable, 404, content that does not parse, valid content) and every
\* local state (no copy, valid copy, copy that cannot be parsed) it returns a
\* table, and a failed remote read always falls through to the local path.
\* (Stated for a disk that can be written.)
C1_LoadNeverRaises ==
    (last.op = "load" /\ last.diskOk) =>
        /\ ~last.raised
        /\ ~RemoteReadWorked => last.via # "remote"

\* C2: whenever load returns, the returned table's columns are exactly the
\* requested columns, on the remote and on the local path and for zero rows:
\* every row of the stored data is returned, stored columns that were not
\* requested are dropped, and requested columns the stored data lacks are
\* empty (NaN) in every row.
C2_LoadColumnsExact ==
    (last.op = "load" /\ ~last.raised) =>
        LET columns == ColumnsOf(ds)
            stored == ReadCsv(StoredData)
        IN /\ last.df.cols = columns
           /\ Len(last.df.rows) = Len(StoredData.lines)
           /\ \A i \in 1..Len(last.df.rows) :
                /\ DOMAIN last.df.rows[i] = Range(columns)
                /\ \A c \in Range(columns) :
                     last.df.rows[i][c] =
                        IF c \in Range(StoredData.header)
                        THEN stored.rows[i][c] ELSE NaN

\* a load returned rows of a remote file that has a column nobody asked for
\* and lacks a requested one
C2_Witness ==
    /\ last.op = "load" /\ ~last.raised /\ last.via = "remote"
    /\ "notes" \in Range(remote.header)
    /\ "type" \notin Range(remote.header)
    /\ Len(last.df.rows) = 1
    /\ last.df.rows[1]["type"] = NaN

\* C3: with the remote unconfigured, save(T, name) followed by
\* load(name, columns) returns the rows of T in the order of T.
C3_RoundTrip ==
    (last.op = "load" /\ ~cfg /\ ~last.raised /\ last.saved # None) =>
        last.df.rows = last.saved.rows

\* C7: save raises only when the local write fails: when the remote is
\* unconfigured or a step of the remote write raises (the sha fetch raises,
\* the PUT raises or is answered with an error status, the PUT is rejected),
\* the same table is written to the local file and save returns; when the
\* remote write goes through, save returns and leaves the local file alone.
C7_SaveFallback ==
    [][last'.op = "save" =>
         LET df == last'.df
             rejected == remote.kind # "none" /\ last'.netSha = "status"
             remoteRaises == \/ ~cfg
                             \/ last'.netSha = "exc"
                             \/ last'.netPut # "ok"
                             \/ rejected
         IN /\ last'.raised <=> (remoteRaises /\ ~last'.diskOk)
            /\ (remoteRaises /\ last'.diskOk) =>
                   localf' = ToCsv(df) /\ remote' = remote
            /\ ~remoteRaises => localf' = localf /\ remote' = ToCsv(df)]_vars

\* a save whose PUT was answered with an error status wrote its row to the
\* local file and returned
C7_Witness ==
    /\ last.op = "save" /\ ~last.raised /\ cfg
    /\ last.netSha = "ok" /\ last.netPut = "status"
    /\ Len(last.df.rows) = 1
    /\ localf = ToCsv(last.df)
    /\ remote # localf

\* ------------------------------------------------------ merge import

HasRow(df, title, type, content) ==
    \E i \in 1..Len(df.rows) :
        /\ df.rows[i]["title"] = Str(title)
        /\ df.rows[i]["type"] = Str(type)
        /\ df.rows[i]["content"] = Str(content)

HasContent(df, content) ==
    \E i \in 1..Len(df.rows) : df.rows[i]["content"] = Str(content)

\* the stored dataset held {A, role, old} and the upload held {A, role, new}
OldAndNew ==
    /\ last.op = "merge" /\ ~last.raised
    /\ HasRow(last.base, "A", "role", "old")
    /\ HasRow(last.new, "A", "role", "new")

\* C4 as stated: when the stored dataset holds {title A, type role, content
\* old} and the incoming table holds {title A, type role, content new}, the
\* merged and saved result contains the row with content new and no row with
\* content old.
C4_IncomingReplacesStored ==
    OldAndNew =>
        /\ HasRow(last.combined, "A", "role", "new")
        /\ ~HasContent(last.combined, "old")

\* C4 amended: the merge keeps the last of the rows that are equal in all of
\* title, type and content. Every stored and every incoming row is in the
\* merged and saved result, no two rows of the result are equal in the three
\* columns, and so a stored {A, role, old} and an incoming {A, role, new},
\* which differ in content, are both in the result.
C4_KeepsLastOfEqualRows ==
    (last.op = "merge" /\ ~last.raised) =>
        LET out == last.combined.rows
            in == last.base.rows \o last.new.rows
        IN /\ \A i \in 1..Len(in) : \E j \in 1..Len(out) : out[j] = in[i]
           /\ \A i, j \in 1..Len(out) : out[i] = out[j] => i = j
           /\ (IF cfg THEN remote ELSE localf) = ToCsv(last.combined)
           /\ OldAndNew =>
                 /\ HasRow(last.combined, "A", "role", "old")
                 /\ HasRow(last.combined, "A", "role", "new")

\* a merge of an upload holding {A, role, new} twice into a dataset holding
\* {A, role, old}: the result holds the old row and the new row once
C4_Witness ==
    /\ OldAndNew
    /\ Len(last.new.rows) = 2
    /\ last.new.rows[1] = last.new.rows[2]
    /\ Len(last.combined.rows) = 2
    /\ HasContent(last.combined, "old")

\* C5: merge import is idempotent: running it a second time with the same
\* incoming table leaves the stored table as the first run left it, with the
\* same rows in the same order.
C5_MergeIdempotent ==
    (last.op = "merge" /\ ~last.raised /\ last.again) =>
        <<remote, localf>> = last.before

\* --------------------------------------------------- revision token

\* the backend answered the PUT of session c's last save
Answered(c) == callers[c].result \in {"accepted", "rejected"}

\* C6 as stated: a save built from a load that predates the other session's
\* successful remote save is rejected by the backend and does not overwrite
\* the other session's content.
C6_StaleWriteRejected ==
    \A c \in Callers :
        (Answered(c) /\ callers[c].afterLoad) => callers[c].result = "rejected"

\* C6 amended: the sha is fetched inside save, right before the PUT, so the
\* backend rejects a PUT exactly when the remote file exists and either the
\* fetch gave no sha or the file's content changed between this save's own
\* sha fetch and its PUT. A save built from a load that predates the other
\* session's save, but whose sha fetch follows it, is accepted and replaces
\* the other session's content.
C6_RejectedOnlyBetweenFetchAndPut ==
    \A c \in Callers :
        Answered(c) =>
            (callers[c].result = "rejected" <=>
                /\ callers[c].putOn.kind # "none"
                /\ \/ callers[c].fetchNet = "status"
                   \/ callers[c].seenAtFetch # callers[c].putOn)

\* session 1 loaded, session 2 then saved its element remotely, and session
\* 1's save was accepted all the same: the remote file holds session 1's
\* table, without session 2's element
C6_Witness ==
    /\ Answered(1) /\ callers[1].afterLoad
    /\ callers[1].result = "accepted"
    /\ callers[2].result = "accepted"
    /\ remote = ToCsv(callers[1].df)
    /\ \A i \in 1..Len(remote.lines) : remote.lines[i][1] # "B"

\* ------------------------------------------------------ prompt assembly

\* the first line of the stored elements file that has the title, 0 if none
StoredLine(title) ==
    LET hits == {i \in 1..Len(localf.lines) : localf.lines[i][1] = title}
    IN IF hits = {} THEN 0 ELSE CHOOSE i \in hits : \A j \in hits : i <= j

\* the page was drawn with the six sections, and the role selectbox holds a title
RoleTitlePicked ==
    /\ builder.op = "render"
    /\ builder.selections # <<>>
    /\ builder.selections[1].selected.v \notin {SKIP, WRITE_YOUR_OWN}

\* C8: an element that is found by title and whose content is empty or
\* whitespace-only, also when its content field is empty in the stored
\* dataset it was loaded from, is rendered as "<DisplayTitle>: <title>" with
\* the notice "<DisplayTitle> -> <title>" (role Expert with content "" alone
\* gives the prompt "Role: Expert" and the notices ["Role -> Expert"]); an
\* element with non-empty trimmed content yields its content and no notice.
C8_TitleFallback ==
    RoleTitlePicked =>
        LET t == builder.selections[1].selected.v
            n == StoredLine(t)
            content == Strip(localf.lines[n][3])
            notice == "Role → " \o t
        IN n # 0 =>
            IF content = ""
            THEN /\ Len(builder.parts) >= 1 /\ builder.parts[1] = "Role: " \o t
                 /\ Len(builder.missing) >= 1 /\ builder.missing[1] = notice
                 /\ (IsSkip(builder.selections[3].selected)
                        /\ ~builder.recursive_feedback) =>
                        /\ builder.prompt = "Role: " \o t
                        /\ builder.missing = <<notice>>
            ELSE /\ Len(builder.parts) >= 1 /\ builder.parts[1] = "Role: " \o content
                 /\ \A i \in 1..Len(builder.missing) : builder.missing[i] # notice

\* C9: the feedback suffix is appended only when the flag is true and the
\* assembled prompt is non-empty: an empty selections map or all-Skip
\* selections give the empty string and no notices for either value of the
\* flag; non-empty sections with the flag give the sections, a blank line,
\* the suffix; without the flag the sections alone.
C9_FeedbackSuffix ==
    builder.op = "render" =>
        LET body == Join(builder.parts, "\n\n")
            allSkip == \A i \in 1..Len(builder.selections) :
                          IsSkip(builder.selections[i].selected)
        IN /\ allSkip => (builder.prompt = "" /\ builder.missing = <<>>)
           /\ (builder.recursive_feedback /\ builder.parts # <<>>) =>
                  builder.prompt = body \o FEEDBACK_SUFFIX
           /\ ~builder.recursive_feedback => builder.prompt = body

\* C10: a multi-choice section without a free-text override has as content
\* the newline-join, in list order, of the resolved contents of the listed
\* titles, without the "Skip" and "Write your own" sentinels and without the
\* titles that are not in the element table; a title that is not in the
\* table adds no notice and does not keep the other titles out; the section
\* is rendered "<DisplayTitle>:\n<content>" and is left out when the list is
\* [] or ["Skip"] or the join is empty.
C10_MultiChoiceJoin ==
    (builder.op = "render" /\ builder.selections # <<>>
        /\ builder.selections[3].custom = "") =>
        LET df == builder.df
            picked == builder.selections[3].selected.v
            known == SelectSeq(picked, LAMBDA t :
                        t \notin {SKIP, WRITE_YOUR_OWN} /\ FirstRow(df, t) # 0)
            content == Join([i \in 1..Len(known) |->
                                RowContentOrFallback(df, known[i])[1]], "\n")
            fellBack == SelectSeq(known, LAMBDA t : RowContentOrFallback(df, t)[2] # "")
            notices == [i \in 1..Len(fellBack) |-> "Target Audience → " \o fellBack[i]]
            role == Section(builder.selections[1], df)
        IN /\ builder.parts = role.parts \o
                 (IF picked = <<>> \/ picked = <<SKIP>> \/ content = ""
                  THEN <<>> ELSE <<"Target Audience:\n" \o content>>)
           /\ builder.missing = role.missing \o notices

\* the audience multiselect held a title that is gone between two that are
\* in the table: the section holds the two contents on two lines
C10_Witness ==
    /\ builder.op = "render" /\ builder.selections # <<>>
    /\ builder.selections[3].selected.v = <<"Expert", "Ghost", "Teacher">>
    /\ builder.selections[3].custom = ""
    /\ builder.parts = <<"Target Audience:\nA seasoned expert\nTeachers">>
    /\ builder.missing = <<>>

\* ------------------------------------------------------ prompt history

\* most prompts saved in one run
MaxPrompts == 3

\* the Prompt Name box and the text of the prompt box when Save Prompt is pressed
PromptNames == {"P", "Q"}
PromptTexts == {"Role: Expert"}

\* datetime.now() of the n-th save, as to_csv writes it
Stamp(n) == "2026-01-01 00:00:0" \o ToString(n)

\* the prompts saved so far in this run, oldest first
Appended == IF last.op = "prompts" THEN last.appended ELSE <<>>

\* new_row of DataManager.save_prompt
PromptRow(rec) ==
    [cols |-> PROMPT_HISTORY_COLUMNS,
     rows |-> <<[name |-> Str(rec.name), timestamp |-> Str(rec.timestamp),
                 prompt |-> Str(rec.prompt)]>>]

\* DataManager.save_prompt(name, prompt): load prompt_history.csv, concat the
\* new row, save; local reads and writes succeed, the three remote calls
\* (read, sha fetch, PUT) each end in any way
SavePrompt ==
    /\ Len(Appended) < MaxPrompts
    /\ \E name \in PromptNames, prompt \in PromptTexts,
          net \in NetOutcomes, netSha \in NetOutcomes, netPut \in NetOutcomes :
        \E rec \in {[name |-> name, timestamp |-> Stamp(Len(Appended) + 1),
                     prompt |-> prompt]} :
        \E l \in {LoadData(PROMPT_HISTORY_COLUMNS, cfg, remote, localf, net, TRUE)} :
        \E r \in {IF l.raised
                  THEN [raised |-> TRUE, remote |-> remote, localf |-> l.localf,
                        via |-> "none"]
                  ELSE SaveData(Concat(l.df, PromptRow(rec)), cfg, remote, l.localf,
                                netSha, netPut, TRUE)} :
           /\ ~cfg => (net = "exc" /\ netSha = "exc")
           /\ (~cfg \/ netSha = "exc") => netPut = "exc"
           /\ remote' = r.remote
           /\ localf' = r.localf
           /\ last' = [op |-> "prompts", appended |-> Append(Appended, rec),
                       raised |-> r.raised, loaded |-> None, via |-> r.via]
    /\ UNCHANGED <<ds, cfg, callers, builder>>

\* PromptBrowser.render: a later load_data of prompt_history.csv
LoadHistory ==
    /\ last.op = "prompts"
    /\ \E net \in NetOutcomes :
        \E l \in {LoadData(PROMPT_HISTORY_COLUMNS, cfg, remote, localf, net, TRUE)} :
           /\ ~cfg => net = "exc"
           /\ ~l.raised
           /\ localf' = l.localf
           /\ last' = [last EXCEPT !.loaded = l.df, !.via = l.via]
    /\ UNCHANGED <<ds, cfg, remote, callers, builder>>

InitHistory ==
    /\ ds = HISTORY_FILE
    /\ cfg \in BOOLEAN
    /\ remote = NoFile
    /\ localf = NoFile
    /\ last = NoOp
    /\ callers = <<>>
    /\ builder = NoOp

NextHistory == SavePrompt \/ LoadHistory

SpecHistory == InitHistory /\ [][NextHistory]_vars

\* row i of a loaded table is the saved prompt rec, as the file spells it
IsRecord(df, i, rec) ==
    /\ df.rows[i]["name"].k # "nan" /\ df.rows[i]["name"].v = rec.name
    /\ df.rows[i]["timestamp"].k # "nan" /\ df.rows[i]["timestamp"].v = rec.timestamp
    /\ df.rows[i]["prompt"].k # "nan" /\ df.rows[i]["prompt"].v = rec.prompt

\* the saved prompts are rows of the table, in the order they were saved
ContainsInOrder(df, recs) ==
    \E f \in [1..Len(recs) -> 1..Len(df.rows)] :
        /\ \A i \in 1..Len(recs) : IsRecord(df, f[i], recs[i])
        /\ \A i, j \in 1..Len(recs) : i < j => f[i] < f[j]

\* C11: prompt records are never lost: with one caller at a time, after any
\* sequence of save_prompt calls, in any remote configuration and under any
\* pattern of remote read and remote write failures (local reads and writes
\* succeeding), the table a later load returns holds every saved prompt, in
\* the order they were saved.
C11_RecordsNeverLost ==
    (last.op = "prompts" /\ last.loaded # None) =>
        ContainsInOrder(last.loaded, last.appended)

\* ------------------------------------------------------ lookup by title

\* the rows of the table that carry the title, whatever their type
Titled(df, t) == {i \in 1..Len(df.rows) : df.rows[i]["title"].v = t}

\* the stripped content of the topmost row that carries the title
TopContent(df, t) ==
    Strip(PyStr(df.rows[CHOOSE i \in Titled(df, t) :
                            \A j \in Titled(df, t) : i <= j]["content"]))

\* what a section shows for the title: that content, or the title when it is empty
TopText(df, t) == IF TopContent(df, t) = "" THEN t ELSE TopContent(df, t)

\* C12: the lookup matches on the title alone over the whole element table,
\* not on the type of the section: when several rows carry the same title
\* (for example under two different types), the content and the decision to
\* fall back to the title, for every section that references the title, come
\* from the first matching row in table order.
C12_FirstTitleMatch ==
    (builder.op = "render" /\ builder.selections # <<>>
        /\ builder.selections[1].custom = "" /\ builder.selections[3].custom = "") =>
        LET df == builder.df
            role == builder.selections[1].selected.v
            asked == IF role \in {SKIP, WRITE_YOUR_OWN} \/ Titled(df, role) = {}
                     THEN <<>> ELSE <<role>>
            known == SelectSeq(builder.selections[3].selected.v, LAMBDA t :
                        t \notin {SKIP, WRITE_YOUR_OWN} /\ Titled(df, t) # {})
            unset == SelectSeq(asked, LAMBDA t : TopContent(df, t) = "")
            bare == SelectSeq(known, LAMBDA t : TopContent(df, t) = "")
        IN /\ builder.parts =
                 [i \in 1..Len(asked) |-> "Role: " \o TopText(df, asked[i])]
                 \o (IF known = <<>> THEN <<>>
                     ELSE <<"Target Audience:\n" \o
                            Join([i \in 1..Len(known) |-> TopText(df, known[i])], "\n")>>)
           /\ builder.missing =
                 [i \in 1..Len(unset) |-> "Role → " \o unset[i]]
                 \o [i \in 1..Len(bare) |-> "Target Audience → " \o bare[i]]

\* the table holds the title "Expert" under the type audience, with blank
\* content, and then under the type role, with content; the role section and
\* the audience section both reference it and both fall back to the title
C12_Witness ==
    /\ builder.op = "render" /\ builder.selections # <<>>
    /\ Len(builder.df.rows) = 2
    /\ builder.df.rows[1] = RowOf(CSV_COLUMNS, <<Str("Expert"), Str("audience"), Str(" ")>>)
    /\ builder.df.rows[2] = RowOf(CSV_COLUMNS,
                                  <<Str("Expert"), Str("role"), Str("A seasoned expert")>>)
    /\ builder.selections[1].selected.v = "Expert"
    /\ builder.selections[3].selected.v = <<"Expert">>
    /\ builder.parts = <<"Role: Expert", "Target Audience:\nExpert">>
    /\ builder.missing = <<"Role → Expert", "Target Audience → Expert">>

====
